---------------------------- MODULE Spec2Model ----------------------------
(* Model of the parser combinator engine of lisparser                      *)
(* (src/src/parser_comb.rs).  Inputs are UTF-8 byte strings, parsers are   *)
(* values (a tree of combinators over primitives), and one call of         *)
(* Parser::parse is an operator from an input to an outcome.  A Rust call  *)
(* ends in one of four ways: it returns Ok, it returns Err(Error), it      *)
(* panics, or it never returns.                                            *)
EXTENDS Integers, Sequences, FiniteSets, TLC

(***************************************************************************)
(* Bounds of the model                                                     *)
(***************************************************************************)
\* longest input, in characters
MaxLen == 3
\* the growing `parsed` vector of a loop that makes no progress is recorded
\* up to this many elements
MaxParsed == 2

(***************************************************************************)
(* Text: &str is a sequence of UTF-8 bytes                                 *)
(***************************************************************************)
\* the characters of the model, as code points: '!', 'a' and the two-byte 'é'
Bang == 33
LowerA == 97
EAcute == 233
Alphabet == {Bang, LowerA, EAcute}

\* UTF-8 encoding of a code point below U+0800
Encode(c) == IF c < 128 THEN <<c>> ELSE <<192 + (c \div 64), 128 + (c % 64)>>

RECURSIVE Str(_)
\* the &str holding the characters cs
Str(cs) == IF cs = <<>> THEN <<>> ELSE Encode(Head(cs)) \o Str(Tail(cs))

\* every input of at most MaxLen characters
Inputs == {Str(cs) : cs \in UNION {[1..k -> Alphabet] : k \in 0..MaxLen}}

\* input.chars().next(): the first character decoded, or NoChar on ""
NoChar == -1
FirstChar(input) ==
    IF input = <<>> THEN NoChar
    ELSE IF input[1] < 128 THEN input[1]
    ELSE (input[1] - 192) * 64 + (input[2] - 128)

\* str::is_char_boundary
IsCharBoundary(input, i) ==
    \/ i = 0
    \/ i = Len(input)
    \/ i < Len(input) /\ input[i + 1] \notin 128..191

IsSuffix(r, s) ==
    /\ Len(r) <= Len(s)
    /\ SubSeq(s, Len(s) - Len(r) + 1, Len(s)) = r

(***************************************************************************)
(* Values produced by parsers                                              *)
(***************************************************************************)
CharV(c) == [tag |-> "char", c |-> c, items |-> <<>>]
UnitV == [tag |-> "unit", c |-> 0, items |-> <<>>]
VecV(xs) == [tag |-> "vec", c |-> 0, items |-> xs]
EitherA(v) == [tag |-> "A", c |-> 0, items |-> <<v>>]
EitherB(v) == [tag |-> "B", c |-> 0, items |-> <<v>>]

RECURSIVE Get(_)
\* Get::get: the value inside any nesting of Either, anything else unchanged
Get(v) == IF v.tag \in {"A", "B"} THEN Get(v.items[1]) ELSE v

(***************************************************************************)
(* Outcomes of a call                                                      *)
(***************************************************************************)
Ok(v, rest) == [res |-> "Ok", val |-> v, rest |-> rest]
Err == [res |-> "Err", val |-> UnitV, rest |-> <<>>]
Panic == [res |-> "Panic", val |-> UnitV, rest |-> <<>>]
Hang == [res |-> "Hang", val |-> UnitV, rest |-> <<>>]
NoOut == [res |-> "None", val |-> UnitV, rest |-> <<>>]

\* SliceFrom1 with the range written the other way round, &input[..1]
SliceFrom1_Head(v, input) ==
    IF IsCharBoundary(input, 1)
    THEN Ok(v, SubSeq(input, 1, 1))
    ELSE Panic

\* Ok((v, &input[1..])): slicing at byte 1 panics inside a multi-byte character
SliceFrom1(v, input) ==
    IF IsCharBoundary(input, 1)
    THEN Ok(v, SubSeq(input, 2, Len(input)))
    ELSE Panic

(***************************************************************************)
(* Primitive parsers                                                       *)
(***************************************************************************)
CharacterParse(c, input) ==
    IF FirstChar(input) = NoChar THEN Err
    ELSE IF FirstChar(input) = c THEN SliceFrom1(CharV(c), input)
    ELSE Err

AnyParse(input) ==
    IF FirstChar(input) = NoChar THEN Err
    ELSE SliceFrom1(CharV(FirstChar(input)), input)

\* chars: the characters of the &str given to one_of
OneOfParse(chars, input) ==
    IF chars = <<>> THEN Err
    ELSE IF FirstChar(input) = NoChar THEN Err
    ELSE IF \E i \in 1..Len(chars) : chars[i] = FirstChar(input)
         THEN SliceFrom1(CharV(FirstChar(input)), input)
    ELSE Err

\* RangeInclusive lo..=hi; it is empty when lo > hi
RangeParse(lo, hi, input) ==
    IF lo > hi THEN Err
    ELSE IF FirstChar(input) = NoChar THEN Err
    ELSE IF lo <= FirstChar(input) /\ FirstChar(input) <= hi
         THEN SliceFrom1(CharV(FirstChar(input)), input)
    ELSE Err

(***************************************************************************)
(* Parser values: a combinator holds its constituent parsers in sub        *)
(***************************************************************************)
Mk(k, c, lo, hi, chars, f, sub) ==
    [k |-> k, c |-> c, lo |-> lo, hi |-> hi, chars |-> chars, f |-> f, sub |-> sub]

character(c) == Mk("character", c, 0, 0, <<>>, <<>>, <<>>)
any == Mk("any", 0, 0, 0, <<>>, <<>>, <<>>)
one_of(chars) == Mk("one_of", 0, 0, 0, chars, <<>>, <<>>)
range(lo, hi) == Mk("range", 0, lo, hi, <<>>, <<>>, <<>>)
many(parser) == Mk("many", 0, 0, 0, <<>>, <<>>, <<parser>>)
or(first, second) == Mk("or", 0, 0, 0, <<>>, <<>>, <<first, second>>)
map(parser, f) == Mk("map", 0, 0, 0, <<>>, f, <<parser>>)
flat_map(parser, f) == Mk("flat_map", 0, 0, 0, <<>>, f, <<parser>>)
zip_left(left, right) == Mk("zip_left", 0, 0, 0, <<>>, <<>>, <<left, right>>)
zip_right(left, right) == Mk("zip_right", 0, 0, 0, <<>>, <<>>, <<left, right>>)
until(parser, term) == Mk("until", 0, 0, 0, <<>>, <<>>, <<parser, term>>)

(***************************************************************************)
(* The closures given to map and flat_map, by name                         *)
(***************************************************************************)
\* "unit" is |_| (), "get" is Get::get, "list" wraps the value in a one-element
\* vector, "upper" is |c| c.to_ascii_uppercase()
Fns == {"unit", "get", "list", "upper"}

ApplyFn(name, v) ==
    CASE name = "unit" -> UnitV
      [] name = "get" -> Get(v)
      [] name = "list" -> VecV(<<v>>)
      [] name = "upper" ->
            IF v.tag = "char" /\ v.c \in 97..122 THEN CharV(v.c - 32) ELSE v

RECURSIVE Apply(_, _)
\* a closure f is the sequence of the named functions it applies, first to last
Apply(f, v) == IF f = <<>> THEN v ELSE Apply(Tail(f), ApplyFn(Head(f), v))

\* the closures given to flat_map ignore the value and build the next parser:
\* |_| character('!') and |_| any().until(character('!'))
Conts == {"bang", "until_bang"}

Cont(f, v) ==
    IF Head(f) = "bang" THEN character(Bang)
    ELSE until(any, character(Bang))

(***************************************************************************)
(* Parser::parse of each combinator.  A handler gives its outcome and the  *)
(* calls it made to its constituent parsers, in order.                     *)
(***************************************************************************)
RECURSIVE Run(_, _)
RECURSIVE ManyLoop(_, _)
RECURSIVE UntilLoop(_, _, _)

Call(who, input) == [who |-> who, on |-> input]
Ret(out, calls) == [out |-> out, calls |-> calls]

\* the element of a one-element set: The({e(r) : r \in {call}}) is e of the
\* call's result, the call being evaluated once
The(S) == CHOOSE x \in S : TRUE

\* MapParse returning the input it was given in place of the remainder
MapParse_KeepsInput(parser, f, input) ==
    The({ IF r.res = "Ok"
          THEN Ret(Ok(Apply(f, r.val), input), <<Call("parser", input)>>)
          ELSE Ret(r, <<Call("parser", input)>>)
          : r \in {Run(parser, input)} })

MapParse(parser, f, input) ==
    The({ IF r.res = "Ok"
          THEN Ret(Ok(Apply(f, r.val), r.rest), <<Call("parser", input)>>)
          ELSE Ret(r, <<Call("parser", input)>>)
          : r \in {Run(parser, input)} })

FlatMapParse(parser, f, input) ==
    The({ IF r.res = "Ok"
          THEN Ret(Run(Cont(f, r.val), r.rest),
                   <<Call("parser", input), Call("next", r.rest)>>)
          ELSE Ret(r, <<Call("parser", input)>>)
          : r \in {Run(parser, input)} })

\* ZipLeftParse running right on the original input, not on left's remainder
ZipLeftParse_SameInput(left, right, input) ==
    The({ IF l.res # "Ok" THEN Ret(l, <<Call("left", input)>>)
          ELSE The({ IF r.res # "Ok"
                     THEN Ret(r, <<Call("left", input), Call("right", input)>>)
                     ELSE Ret(Ok(l.val, r.rest),
                              <<Call("left", input), Call("right", input)>>)
                     : r \in {Run(right, input)} })
          : l \in {Run(left, input)} })

ZipLeftParse(left, right, input) ==
    The({ IF l.res # "Ok" THEN Ret(l, <<Call("left", input)>>)
          ELSE The({ IF r.res # "Ok"
                     THEN Ret(r, <<Call("left", input), Call("right", l.rest)>>)
                     ELSE Ret(Ok(l.val, r.rest),
                              <<Call("left", input), Call("right", l.rest)>>)
                     : r \in {Run(right, l.rest)} })
          : l \in {Run(left, input)} })

ZipRightParse(left, right, input) ==
    The({ IF l.res # "Ok" THEN Ret(l, <<Call("left", input)>>)
          ELSE The({ IF r.res # "Ok"
                     THEN Ret(r, <<Call("left", input), Call("right", l.rest)>>)
                     ELSE Ret(Ok(r.val, r.rest),
                              <<Call("left", input), Call("right", l.rest)>>)
                     : r \in {Run(right, l.rest)} })
          : l \in {Run(left, input)} })

\* OrParse trying second before first
OrParse_SecondFirst(first, second, input) ==
    The({ IF b.res = "Ok"
          THEN Ret(Ok(EitherB(b.val), b.rest), <<Call("second", input)>>)
          ELSE IF b.res # "Err" THEN Ret(b, <<Call("second", input)>>)
          ELSE The({ IF a.res = "Ok"
                     THEN Ret(Ok(EitherA(a.val), a.rest),
                              <<Call("second", input), Call("first", input)>>)
                     ELSE Ret(a, <<Call("second", input), Call("first", input)>>)
                     : a \in {Run(first, input)} })
          : b \in {Run(second, input)} })

OrParse(first, second, input) ==
    The({ IF a.res = "Ok"
          THEN Ret(Ok(EitherA(a.val), a.rest), <<Call("first", input)>>)
          ELSE IF a.res # "Err" THEN Ret(a, <<Call("first", input)>>)
          ELSE The({ IF b.res = "Ok"
                     THEN Ret(Ok(EitherB(b.val), b.rest),
                              <<Call("first", input), Call("second", input)>>)
                     ELSE Ret(b, <<Call("first", input), Call("second", input)>>)
                     : b \in {Run(second, input)} })
          : a \in {Run(first, input)} })

(***************************************************************************)
(* The loops of many and until, one iteration at a time.  A loop is at     *)
(* Scanning while it runs; Done, Failed and Panicked are its three exits;  *)
(* Hung is a call to a constituent parser that never returns.              *)
(***************************************************************************)
Loop(pc, input, parsed, calls) ==
    [pc |-> pc, input |-> input, parsed |-> parsed, calls |-> calls]

Exit(r) == IF r.res = "Panic" THEN "Panicked" ELSE "Hung"

\* ManyEnter with the check of the empty input that the source has commented out
ManyEnter_EmptyFails(input) ==
    IF input = <<>> THEN Loop("Failed", input, <<>>, <<>>)
    ELSE Loop("Scanning", input, <<>>, <<>>)

\* let mut parsed = vec![];
ManyEnter(input) == Loop("Scanning", input, <<>>, <<>>)

\* one evaluation of `while let Ok((ch, rest)) = parser.parse(input)` and the body
ManyStep(parser, st) ==
    The({ IF r.res = "Ok"
          THEN Loop("Scanning", r.rest, Append(st.parsed, r.val),
                    <<Call("parser", st.input)>>)
          ELSE IF r.res = "Err"
               THEN Loop("Done", st.input, st.parsed, <<Call("parser", st.input)>>)
          ELSE Loop(Exit(r), st.input, st.parsed, <<Call("parser", st.input)>>)
          : r \in {Run(parser, st.input)} })

\* UntilEnter without the check of the empty input
UntilEnter_NoCheck(input) == Loop("Scanning", input, <<>>, <<>>)

\* if input.is_empty() { return Err(Error); } let mut parsed = vec![];
UntilEnter(input) ==
    IF input = <<>> THEN Loop("Failed", input, <<>>, <<>>)
    ELSE Loop("Scanning", input, <<>>, <<>>)

\* the body of the loop of until, the terminator having failed at st.input
UntilBody(parser, st) ==
    The({ IF r.res = "Ok"
          THEN Loop("Scanning", r.rest, Append(st.parsed, r.val),
                    <<Call("until", st.input), Call("parser", st.input)>>)
          ELSE IF r.res = "Err"
               THEN Loop("Failed", st.input, st.parsed,
                         <<Call("until", st.input), Call("parser", st.input)>>)
          ELSE Loop(Exit(r), st.input, st.parsed,
                    <<Call("until", st.input), Call("parser", st.input)>>)
          : r \in {Run(parser, st.input)} })

\* UntilStep leaving the loop past the terminator, at the probe's remainder
UntilStep_Consumes(parser, term, st) ==
    The({ IF t.res = "Ok"
          THEN Loop("Done", t.rest, st.parsed, <<Call("until", st.input)>>)
          ELSE IF t.res # "Err"
               THEN Loop(Exit(t), st.input, st.parsed, <<Call("until", st.input)>>)
          ELSE UntilBody(parser, st)
          : t \in {Run(term, st.input)} })

\* one evaluation of `while let Err(..) = self.until.parse(input)` and the body
UntilStep(parser, term, st) ==
    The({ IF t.res = "Ok"
          THEN Loop("Done", st.input, st.parsed, <<Call("until", st.input)>>)
          ELSE IF t.res # "Err"
               THEN Loop(Exit(t), st.input, st.parsed, <<Call("until", st.input)>>)
          ELSE UntilBody(parser, st)
          : t \in {Run(term, st.input)} })

\* what the call returns when its loop has left Scanning
LoopOut(st) ==
    CASE st.pc = "Done" -> Ok(VecV(st.parsed), st.input)
      [] st.pc = "Failed" -> Err
      [] st.pc = "Panicked" -> Panic
      [] OTHER -> Hang

\* The loop run to its exit.  The parsers hold no mutable state, so an
\* iteration that leaves the input where it was is repeated forever.
ManyLoop(parser, st) ==
    IF st.pc # "Scanning" THEN st
    ELSE The({ IF n.pc = "Scanning" /\ Len(n.input) >= Len(st.input)
               THEN Loop("Hung", n.input, n.parsed, n.calls)
               ELSE ManyLoop(parser, n)
               : n \in {ManyStep(parser, st)} })

UntilLoop(parser, term, st) ==
    IF st.pc # "Scanning" THEN st
    ELSE The({ IF n.pc = "Scanning" /\ Len(n.input) >= Len(st.input)
               THEN Loop("Hung", n.input, n.parsed, n.calls)
               ELSE UntilLoop(parser, term, n)
               : n \in {UntilStep(parser, term, st)} })

ManyParse(parser, input) == LoopOut(ManyLoop(parser, ManyEnter(input)))

UntilParse(parser, term, input) == LoopOut(UntilLoop(parser, term, UntilEnter(input)))

\* Parser::parse, dispatched on the parser's type
Run(p, input) ==
    CASE p.k = "character" -> CharacterParse(p.c, input)
      [] p.k = "any" -> AnyParse(input)
      [] p.k = "one_of" -> OneOfParse(p.chars, input)
      [] p.k = "range" -> RangeParse(p.lo, p.hi, input)
      [] p.k = "many" -> ManyParse(p.sub[1], input)
      [] p.k = "until" -> UntilParse(p.sub[1], p.sub[2], input)
      [] p.k = "or" -> OrParse(p.sub[1], p.sub[2], input).out
      [] p.k = "map" -> MapParse(p.sub[1], p.f, input).out
      [] p.k = "flat_map" -> FlatMapParse(p.sub[1], p.f, input).out
      [] p.k = "zip_left" -> ZipLeftParse(p.sub[1], p.sub[2], input).out
      [] p.k = "zip_right" -> ZipRightParse(p.sub[1], p.sub[2], input).out

\* parse without the check of the remainder
parse_AnyRest(parser, input) ==
    The({ IF r.res # "Ok" THEN r ELSE Ok(r.val, <<>>)
          : r \in {Run(parser, input)} })

\* the entry point parse(parser, input)
parse(parser, input) ==
    The({ IF r.res # "Ok" THEN r
          ELSE IF r.rest = <<>> THEN Ok(r.val, <<>>)
          ELSE Err
          : r \in {Run(parser, input)} })

(***************************************************************************)
(* The state machine: a caller builds parsers p and q, composes them with  *)
(* one combinator and runs the result on the input s.                      *)
(***************************************************************************)
VARIABLES
    p,       \* the parser the operation is applied to
    q,       \* the second parser of or, zip_left, zip_right and until
    s,       \* the input the caller passes
    op,      \* the operation the caller runs, "idle" before the call
    f,       \* the closures the caller gave to map or flat_map
    out,     \* what the call returned, NoOut while it has not returned
    calls,   \* the calls to p and q made by the handler or by the last iteration
    pc,      \* where the loop of many or until is
    input,   \* the loop's local `input`
    parsed,  \* the loop's local `parsed`
    parity   \* the number of iterations the loop has made, modulo 2

vars == <<p, q, s, op, f, out, calls, pc, input, parsed, parity>>

\* the parsers the caller composes
Parsers ==
    { character(LowerA), character(Bang), character(EAcute), any,
      range(LowerA, EAcute), range(EAcute, LowerA),
      one_of(<<LowerA, Bang>>), one_of(<<>>),
      many(character(LowerA)), many(any),
      until(any, character(Bang)),
      or(character(LowerA), any),
      zip_left(character(LowerA), character(Bang)),
      zip_right(any, character(LowerA)),
      map(any, <<"unit">>),
      flat_map(character(LowerA), <<"until_bang">>) }

Init ==
    /\ p \in Parsers
    /\ q \in Parsers
    /\ s \in Inputs
    /\ op = "idle"
    /\ f = <<>>
    /\ out = NoOut
    /\ calls = <<>>
    /\ pc = "None"
    /\ input = <<>>
    /\ parsed = <<>>
    /\ parity = 0

NoLoop == UNCHANGED <<pc, input, parsed, parity>>

\* p.parse(s)
RunAct ==
    /\ op = "idle"
    /\ op' = "run"
    /\ out' = Run(p, s)
    /\ UNCHANGED <<p, q, s, f, calls>>
    /\ NoLoop

\* parse(p, s)
ParseAct ==
    /\ op = "idle"
    /\ op' = "parse"
    /\ out' = parse(p, s)
    /\ UNCHANGED <<p, q, s, f, calls>>
    /\ NoLoop

\* p.or(q).parse(s)
OrAct ==
    /\ op = "idle"
    /\ op' = "or"
    /\ out' = OrParse(p, q, s).out
    /\ calls' = OrParse(p, q, s).calls
    /\ UNCHANGED <<p, q, s, f>>
    /\ NoLoop

\* p.zip_left(q).parse(s)
ZipLeftAct ==
    /\ op = "idle"
    /\ op' = "zip_left"
    /\ out' = ZipLeftParse(p, q, s).out
    /\ calls' = ZipLeftParse(p, q, s).calls
    /\ UNCHANGED <<p, q, s, f>>
    /\ NoLoop

\* p.zip_right(q).parse(s)
ZipRightAct ==
    /\ op = "idle"
    /\ op' = "zip_right"
    /\ out' = ZipRightParse(p, q, s).out
    /\ calls' = ZipRightParse(p, q, s).calls
    /\ UNCHANGED <<p, q, s, f>>
    /\ NoLoop

\* p.map(f1).map(g1).parse(s)
MapAct ==
    /\ op = "idle"
    /\ \E f1 \in Fns, g1 \in Fns :
        /\ f' = <<f1, g1>>
        /\ out' = MapParse(map(p, <<f1>>), <<g1>>, s).out
        /\ calls' = MapParse(map(p, <<f1>>), <<g1>>, s).calls
    /\ op' = "map"
    /\ UNCHANGED <<p, q, s>>
    /\ NoLoop

\* p.flat_map(k).parse(s)
FlatMapAct ==
    /\ op = "idle"
    /\ \E k \in Conts :
        /\ f' = <<k>>
        /\ out' = FlatMapParse(p, <<k>>, s).out
        /\ calls' = FlatMapParse(p, <<k>>, s).calls
    /\ op' = "flat_map"
    /\ UNCHANGED <<p, q, s>>
    /\ NoLoop

\* the loop's state after one more iteration: an iteration that leaves the
\* input where it was pushes onto `parsed` only up to MaxParsed elements
Record(n) ==
    /\ pc' = n.pc
    /\ input' = n.input
    /\ parsed' = IF n.pc = "Scanning" /\ n.input = input /\ Len(parsed) >= MaxParsed
                 THEN parsed
                 ELSE n.parsed
    /\ calls' = n.calls
    /\ parity' = 1 - parity
    /\ out' = IF n.pc = "Scanning" THEN NoOut ELSE LoopOut(n)

\* many(p).parse(s) is called
ManyCall ==
    /\ op = "idle"
    /\ op' = "many"
    /\ pc' = ManyEnter(s).pc
    /\ input' = ManyEnter(s).input
    /\ parsed' = ManyEnter(s).parsed
    /\ UNCHANGED <<p, q, s, f, out, calls, parity>>

\* one iteration of the loop of many
ManyIter ==
    /\ op = "many"
    /\ pc = "Scanning"
    /\ \E n \in {ManyStep(p, Loop(pc, input, parsed, calls))} : Record(n)
    /\ UNCHANGED <<p, q, s, op, f>>

\* p.until(q).parse(s) is called
UntilCall ==
    /\ op = "idle"
    /\ op' = "until"
    /\ pc' = UntilEnter(s).pc
    /\ input' = UntilEnter(s).input
    /\ parsed' = UntilEnter(s).parsed
    /\ out' = IF UntilEnter(s).pc = "Scanning" THEN NoOut ELSE LoopOut(UntilEnter(s))
    /\ UNCHANGED <<p, q, s, f, calls, parity>>

\* one iteration of the loop of until
UntilIter ==
    /\ op = "until"
    /\ pc = "Scanning"
    /\ \E n \in {UntilStep(p, q, Loop(pc, input, parsed, calls))} : Record(n)
    /\ UNCHANGED <<p, q, s, op, f>>

Next ==
    \/ RunAct
    \/ ParseAct
    \/ OrAct
    \/ ZipLeftAct
    \/ ZipRightAct
    \/ MapAct
    \/ FlatMapAct
    \/ ManyCall
    \/ ManyIter
    \/ UntilCall
    \/ UntilIter

Spec == Init /\ [][Next]_vars

\* the loops run on one thread with nothing to wait for: an iteration that can
\* be made is made
FairSpec == Spec /\ WF_vars(ManyIter) /\ WF_vars(UntilIter)

(***************************************************************************)
(* Vocabulary of the properties                                            *)
(***************************************************************************)
\* the suffixes of s that start at a character: the positions of s
Suffixes(ss) ==
    {SubSeq(ss, i + 1, Len(ss)) : i \in {j \in 0..Len(ss) : IsCharBoundary(ss, j)}}

\* ss without its first character, whatever its encoded length
DropFirstChar(ss) == SubSeq(ss, Len(Encode(FirstChar(ss))) + 1, Len(ss))

\* compose(second, first) is the closure |v| second(first(v))
Compose(second, first) == first \o second

RECURSIVE Pos(_, _, _)
\* where the input stands after n successive attempts of parser pp from ss
Pos(pp, ss, n) == IF n = 0 THEN ss ELSE Run(pp, Pos(pp, ss, n - 1)).rest

\* the elements of `parsed` are the values of the successive attempts of pp
\* from ss, all of them successful, and `input` is where they ended
Attempts(pp, ss) ==
    /\ input = Pos(pp, ss, Len(parsed))
    /\ \A i \in 1..Len(parsed) :
        /\ Run(pp, Pos(pp, ss, i - 1)).res = "Ok"
        /\ parsed[i] = Run(pp, Pos(pp, ss, i - 1)).val

\* the calls made to the parser named who
CallsTo(who) == {i \in 1..Len(calls) : calls[i].who = who}

Primitives == {"character", "any", "one_of", "range"}

\* the terminator tt matches at no position of ss
NoMatch(tt, ss) == \A r \in Suffixes(ss) : Run(tt, r).res # "Ok"

\* the constituent parser pp returns at every position of ss
Returns(pp, ss) == \A r \in Suffixes(ss) : Run(pp, r).res # "Hang"

(***************************************************************************)
(* Properties                                                              *)
(***************************************************************************)
\* C1: parse(p, s) returns Ok(v) exactly when p.parse(s) returns Ok((v, r))
\* with r empty; when p fails, or succeeds with a non-empty remainder, parse
\* returns Err(Error), as parse(character('!'), "a!") and
\* parse(character('a'), "a!") do.
C1_WholeInput ==
    op = "parse" =>
        LET r == Run(p, s)
        IN  /\ out.res = "Ok" <=> (r.res = "Ok" /\ r.rest = <<>>)
            /\ out.res = "Ok" => out.val = r.val
            /\ (r.res = "Err" \/ (r.res = "Ok" /\ r.rest # <<>>)) => out = Err
            /\ (p \in {character(Bang), character(LowerA)} /\ s = Str(<<LowerA, Bang>>))
                  => out = Err

\* parse has rejected a parser that succeeded on a prefix of the input
C1_Witness ==
    /\ op = "parse"
    /\ Run(p, s).res = "Ok"
    /\ Run(p, s).rest # <<>>
    /\ out = Err

\* C2: or(p, q) runs p on s first; when p succeeds with (a, r) the result is
\* (Either::A(a), r) and q is not run, even if q would succeed too; q is run
\* exactly when p failed, on the same input s, and gives (Either::B(b), r') on
\* success; or(p, q) fails exactly when both p and q fail on s.
C2_OrLeftBiased ==
    op = "or" =>
        LET a == Run(p, s)
            b == Run(q, s)
        IN  /\ Len(calls) >= 1 /\ calls[1] = Call("first", s)
            /\ CallsTo("first") = {1}
            /\ a.res = "Ok" => out = Ok(EitherA(a.val), a.rest) /\ CallsTo("second") = {}
            /\ CallsTo("second") # {} <=> a.res = "Err"
            /\ \A i \in CallsTo("second") : i = 2 /\ calls[i].on = s
            /\ (a.res = "Err" /\ b.res = "Ok") => out = Ok(EitherB(b.val), b.rest)
            /\ out.res = "Err" <=> (a.res = "Err" /\ b.res = "Err")

\* both parsers succeed on the input, with different results, and p's is returned
C2_Witness ==
    /\ op = "or"
    /\ Run(p, s).res = "Ok"
    /\ Run(q, s).res = "Ok"
    /\ Run(p, s) # Run(q, s)
    /\ out.val = EitherA(Run(p, s).val)

\* C3: many(p) never returns Err; its values are those of the successive
\* successful attempts of p in order and its remainder is the position where p
\* first failed; when p fails at the first attempt it returns the empty
\* sequence and s unchanged.
C3_ManyTotal ==
    op = "many" =>
        /\ pc # "Failed"
        /\ out.res # "Err"
        /\ Attempts(p, s)
        /\ out.res # "None" <=> pc \notin {"None", "Scanning"}
        /\ pc = "Done" => Run(p, input).res = "Err" /\ out = Ok(VecV(parsed), input)
        /\ (Run(p, s).res = "Err" /\ pc # "Scanning") => out = Ok(VecV(<<>>), s)

\* many has returned two values or more and left input that p refused
C3_Witness ==
    /\ op = "many"
    /\ pc = "Done"
    /\ Len(parsed) >= 2
    /\ out.rest # <<>>

\* C4, as claimed: when t matches at position 0 of s, until(p, t) returns the
\* empty sequence and s unchanged at once; when t matches at no position of s,
\* until(p, t) returns failure.
C4_UntilAsClaimed ==
    op = "until" =>
        /\ Run(q, s).res = "Ok" =>
              \/ pc = "Scanning" /\ parity = 0
              \/ pc = "Done" /\ parity = 1 /\ out = Ok(VecV(<<>>), s)
        /\ (NoMatch(q, s) /\ pc # "Scanning") => out = Err

\* C4, amended: on the empty input until(p, t) returns failure whatever t is;
\* when s is not empty and t matches at position 0 of s, until(p, t) returns
\* the empty sequence and s unchanged in its first iteration; when t matches at
\* no position of s, until(p, t) never returns success.
C4_UntilAmended ==
    op = "until" =>
        /\ s = <<>> => pc = "Failed" /\ out = Err
        /\ (s # <<>> /\ Run(q, s).res = "Ok") =>
              \/ pc = "Scanning" /\ parity = 0 /\ out = NoOut
              \/ pc = "Done" /\ parity = 1 /\ out = Ok(VecV(<<>>), s)
        /\ NoMatch(q, s) => pc # "Done" /\ out.res # "Ok"

\* until has returned at once on an input that starts with the terminator
C4_Witness ==
    /\ op = "until"
    /\ s # <<>>
    /\ Run(q, s).res = "Ok"
    /\ Run(p, s).res = "Ok"
    /\ pc = "Done"

\* C5: when a parser built from the primitives and the combinators succeeds on
\* s with remainder r, r is a suffix of s and s is the consumed prefix followed
\* by r; the loops of many and until only ever hold a suffix of s.
C5_PrefixInvariant ==
    /\ (op \notin {"idle", "parse"} /\ out.res = "Ok") =>
          /\ IsSuffix(out.rest, s)
          /\ \E k \in 0..Len(s) : s = SubSeq(s, 1, k) \o out.rest
    /\ op \in {"many", "until"} => IsSuffix(input, s)

\* a parser has consumed a part of its input and left the rest
C5_Witness ==
    /\ op = "run"
    /\ out.res = "Ok"
    /\ out.rest # <<>>
    /\ out.rest # s

\* C6: zip_left(p, q) and zip_right(p, q) run p on s and then q on p's
\* remainder; they succeed exactly when both succeed, with q's remainder and
\* p's value (zip_left) or q's value (zip_right); when p fails the result is
\* failure and q is never invoked.
C6_Zip ==
    op \in {"zip_left", "zip_right"} =>
        LET l == Run(p, s)
            r == Run(q, l.rest)
        IN  /\ Len(calls) >= 1 /\ calls[1] = Call("left", s)
            /\ CallsTo("left") = {1}
            /\ l.res = "Ok" => Len(calls) = 2 /\ calls[2] = Call("right", l.rest)
            /\ out.res = "Ok" <=> (l.res = "Ok" /\ r.res = "Ok")
            /\ out.res = "Ok" =>
                  /\ out.rest = r.rest
                  /\ out.val = IF op = "zip_left" THEN l.val ELSE r.val
            /\ l.res = "Err" => out = Err /\ CallsTo("right") = {}
            /\ (l.res = "Ok" /\ r.res = "Err") => out = Err

\* both parsers have succeeded in turn and q's value is the one returned
C6_Witness ==
    /\ op = "zip_right"
    /\ out.res = "Ok"
    /\ Run(p, s).rest # s
    /\ out.rest # Run(p, s).rest
    /\ out.val # Run(p, s).val

\* C7: on every non-empty s any() succeeds with the first character c of s,
\* whatever its encoded length, and s without that character, and so does
\* character(c); any() fails only on the empty input; no primitive ends in
\* anything other than Ok or Err(Error).
C7_PrimitivesTotal ==
    op = "run" =>
        /\ p.k \in Primitives => out.res \in {"Ok", "Err"}
        /\ p = any => (out = Err <=> s = <<>>)
        /\ (p = any /\ s # <<>>) => out = Ok(CharV(FirstChar(s)), DropFirstChar(s))
        /\ (p.k = "character" /\ s # <<>> /\ p.c = FirstChar(s)) =>
              out = Ok(CharV(p.c), DropFirstChar(s))

\* C8: when the constituent parsers return at every position of s, the loops
\* of many(p) and until(p, t) make finitely many iterations: a loop that is
\* running eventually leaves, also when p succeeds without consuming input.
C8_LoopsTerminate ==
    (/\ pc = "Scanning"
     /\ Returns(p, s)
     /\ op = "until" => Returns(q, s)) ~> (pc # "Scanning")

\* C9: map(map(p, f), g) run on s gives the outcome of map(p, g . f) run on
\* s: on success p's remainder and g(f(v)) for p's value v, and otherwise p's
\* own outcome unchanged.
C9_MapCompose ==
    op = "map" =>
        LET r == Run(p, s)
        IN  /\ out = MapParse(p, Compose(<<f[2]>>, <<f[1]>>), s).out
            /\ r.res = "Ok" => out = Ok(ApplyFn(f[2], ApplyFn(f[1], r.val)), r.rest)
            /\ r.res # "Ok" => out = r

\* two closures that both change the value have been applied, in order
C9_Witness ==
    /\ op = "map"
    /\ out.res = "Ok"
    /\ out.rest # <<>>
    /\ f[1] # f[2]
    /\ ApplyFn(f[1], Run(p, s).val) # Run(p, s).val
    /\ out.val # ApplyFn(f[1], Run(p, s).val)
    /\ out.val # ApplyFn(f[1], ApplyFn(f[2], Run(p, s).val))

\* `parsed` after a push of v onto old (the push is recorded up to MaxParsed
\* elements when the input did not move)
Pushed(old, v, moved) ==
    IF ~moved /\ Len(old) >= MaxParsed THEN old ELSE Append(old, v)

\* C10: until(p, t) is the machine Scanning/Done/Failed.  An iteration probes
\* t at the current position before p is tried there; Scanning moves to Done
\* exactly when the probe matches, with the values so far and the input still
\* at the terminator; it stays Scanning when t does not match and p succeeds,
\* at p's remainder; it moves to Failed when the input is empty at entry or
\* when p fails where t did not match; Done and Failed are final and Failed
\* returns no value.
C10_UntilMachine ==
    /\ [](op = "until" =>
            /\ Attempts(p, s)
            /\ \A i \in 1..Len(parsed) : Run(q, Pos(p, s, i - 1)).res = "Err"
            /\ pc = "Done" => Run(q, out.rest).res = "Ok"
            /\ pc = "Failed" => out = Err)
    /\ [][/\ (op = "idle" /\ op' = "until") =>
               /\ pc' = "Failed" <=> s = <<>>
               /\ pc' = "Failed" => out' = Err
               /\ pc' # "Failed" => pc' = "Scanning" /\ input' = s /\ parsed' = <<>>
          /\ (op = "until" /\ pc = "Scanning") =>
               LET t == Run(q, input)
                   r == Run(p, input)
               IN  /\ calls'[1] = Call("until", input)
                   /\ Len(calls') = 2 => calls'[2] = Call("parser", input)
                   /\ Len(calls') = 2 <=> t.res = "Err"
                   /\ pc' = "Done" <=> t.res = "Ok"
                   /\ pc' = "Done" =>
                         /\ input' = input
                         /\ parsed' = parsed
                         /\ out' = Ok(VecV(parsed), input)
                   /\ (t.res = "Err" /\ r.res = "Ok") =>
                         /\ pc' = "Scanning"
                         /\ input' = r.rest
                         /\ parsed' = Pushed(parsed, r.val, r.rest # input)
                         /\ out' = NoOut
                   /\ pc' = "Failed" <=> (t.res = "Err" /\ r.res = "Err")
                   /\ pc' = "Failed" => out' = Err
          /\ (op = "until" /\ pc \in {"Done", "Failed"}) => UNCHANGED vars
      ]_vars

\* until has stopped at the terminator after two elements or more
C10_Witness ==
    /\ op = "until"
    /\ pc = "Done"
    /\ Len(parsed) >= 2
    /\ Run(q, out.rest).res = "Ok"
    /\ out.val = VecV(parsed)

=============================================================================
